---- MODULE Spec2Model ----
(***************************************************************************)
(* Context Keeper (backend/app/main.py): the commit store (the in-memory   *)
(* list git_events, the Qdrant collection, the repository registry), the   *)
(* ingest / delete / query handlers, query classification and confidence.  *)
(*                                                                         *)
(* Strings are TLA+ strings; Python's `p in s`, s[:n], s.lower() and       *)
(* s.rstrip() are computed character by character.  Timestamps are ISO     *)
(* strings compared lexicographically by the code; they are modelled by    *)
(* naturals carrying that order.  The wall clock (first_indexed,           *)
(* last_updated) and the free-text fields of a commit are left out.        *)
(***************************************************************************)
EXTENDS Integers, Sequences, FiniteSets, TLC

VARIABLES
    qdrant_client,          \* the global qdrant_client is set (not None)
    embedding_model,        \* the global embedding_model is set (not None)
    qdrant_up,              \* the Qdrant service answers calls (else they raise)
    git_events,             \* the in-memory list git_events
    qdrant_points,          \* the Qdrant collection: payload -> number of points
    pending,                \* background tasks store_in_qdrant not yet run
    indexed_repositories,   \* the registry: normalized path -> entry
    repos_file,             \* the content of data/repositories.json
    response,               \* what the last request returned
    deleted,                \* history: repositories deleted and not tracked since
    ingestion_status,       \* the global ingestion_status (its is_ingesting)
    collectors,             \* collector threads started and not yet ended
    handlers,               \* delete requests on the event loop: position, path
    running                 \* the request the event loop is executing, 0 for none

vars == <<qdrant_client, embedding_model, qdrant_up, git_events, qdrant_points,
          pending, indexed_repositories, repos_file, response, deleted,
          ingestion_status, collectors, handlers, running>>

\* the part of the state that belongs to threads and to requests in flight
process == <<ingestion_status, collectors, handlers, running>>

(***************************************************************************)
(* Bounds of the model.                                                    *)
(***************************************************************************)
MaxEvents == 2        \* length of git_events
MaxPending == 1       \* background writes waiting at one time
MaxCommitCount == 2   \* commit_count of a registry entry
MaxLimit == 2         \* the limit a query request carries
MaxLoaded == 3        \* points of the collection found at startup
MaxSources == 8       \* length of a source list given to calculate_confidence
MaxRetrieved == 6     \* length of an event list given to generate_intelligent_answer
MaxOverlap == 2       \* background writes that wait at the same time, in SpecOverlap
MaxCollectors == 2    \* collector threads running at one time
MaxRequests == 2      \* delete requests on the event loop at one time

(***************************************************************************)
(* Python string operations.                                               *)
(***************************************************************************)
Min(a, b) == IF a <= b THEN a ELSE b

\* p in s
Contains(s, p) ==
    \E i \in 1..(Len(s) - Len(p) + 1) : SubSeq(s, i, i + Len(p) - 1) = p

\* s[:n]
Take(s, n) == SubSeq(s, 1, Min(n, Len(s)))

Upper == <<"A","B","C","D","E","F","G","H","I","J","K","L","M",
           "N","O","P","Q","R","S","T","U","V","W","X","Y","Z">>
LowerCase == <<"a","b","c","d","e","f","g","h","i","j","k","l","m",
               "n","o","p","q","r","s","t","u","v","w","x","y","z">>

LowerChar(c) ==
    IF \E k \in 1..Len(Upper) : Upper[k] = c
    THEN LowerCase[CHOOSE k \in 1..Len(Upper) : Upper[k] = c]
    ELSE c

RECURSIVE Lower(_)
\* s.lower()
Lower(s) ==
    IF Len(s) = 0 THEN ""
    ELSE LowerChar(SubSeq(s, 1, 1)) \o Lower(SubSeq(s, 2, Len(s)))

RECURSIVE RStripSlashes(_)
\* s.rstrip('/\\')
RStripSlashes(s) ==
    IF Len(s) > 0 /\ SubSeq(s, Len(s), Len(s)) \in {"/", "\\"}
    THEN RStripSlashes(SubSeq(s, 1, Len(s) - 1))
    ELSE s

\* os.name == 'nt'
IsWindows == FALSE

\* normalize_repo_path, for absolute paths without links or dot components
\* (Path.resolve leaves those as they are, up to the trailing separator)
normalize_repo_path(path) ==
    LET normalized == RStripSlashes(path)
    IN  IF IsWindows THEN Lower(normalized) ELSE normalized

(***************************************************************************)
(* Requests the clients send.                                              *)
(***************************************************************************)
\* the record of a commit, as a body of POST /api/ingest/git carries it
Commit(commit_hash, repository, timestamp, primary_branch, all_branches) ==
    [commit_hash |-> commit_hash, repository |-> repository,
     timestamp |-> timestamp, primary_branch |-> primary_branch,
     all_branches |-> all_branches]

\* the bodies the clients post: three commits of two repositories, one of
\* them under a path with a trailing separator
CommitInputs == {
    Commit("aaa111", "/r", 1, "main", {"main"}),
    Commit("bbb222", "/r/", 2, "dev", {"dev", "main"}),
    Commit("ddd444ddd4", "/r2", 4, "main", {"main"}) }

\* the record ingest_git_event stores for a body
Stored(event) ==
    LET repository == IF event.repository # "unknown"
                      THEN normalize_repo_path(event.repository)
                      ELSE event.repository
    IN  [event EXCEPT !.repository = repository]

\* the commits of /r in the order of their timestamps
History == <<
    Stored(Commit("aaa111", "/r", 1, "main", {"main"})),
    Stored(Commit("bbb222", "/r/", 2, "dev", {"dev", "main"})),
    Stored(Commit("ccc333", "/r", 3, "main", {"main"})),
    Stored(Commit("eee555", "/r", 5, "main", {"main"})),
    Stored(Commit("fff666", "/r", 6, "dev", {"dev"})) >>

\* a body without a commit_hash: ingest_git_event reads event.get("commit_hash", "")
HashlessCommit == Commit("", "/r", 3, "main", {"main"})

\* every record the store may hold
AllEvents ==
    {Stored(c) : c \in CommitInputs \cup {HashlessCommit}}
        \cup {History[i] : i \in DOMAIN History}

RepoPaths == {"/r", "/r2"}      \* repository scopes and paths of requests
NoRepository == ""              \* repository: None
QueryTexts == {"Show the latest commit", "overview", "list commits"}
BranchLists == {<<>>, <<"main">>}
Limits == 1..MaxLimit

NoResponse == [op |-> "none"]
NoRepositories == [p \in {} |-> [path |-> p, commit_count |-> 0, selected |-> TRUE]]

\* the delete requests that may be on the event loop at one time
Requests == 1..MaxRequests
NoRequest == [pc |-> "idle", repo_path |-> "", status |-> "none"]

\* no collector thread runs and no delete request is in flight
NoActivity ==
    /\ ingestion_status = [is_ingesting |-> FALSE]
    /\ collectors = 0
    /\ handlers = [t \in Requests |-> NoRequest]
    /\ running = 0

(***************************************************************************)
(* The initial state: lifespan() against a Qdrant without the collection   *)
(* (it is created empty) or against no Qdrant at all.                      *)
(***************************************************************************)
Init ==
    /\ qdrant_client \in BOOLEAN
    /\ embedding_model \in BOOLEAN
    /\ qdrant_up \in BOOLEAN
    /\ (~qdrant_client => ~qdrant_up)
    /\ git_events = <<>>
    /\ qdrant_points = [e \in AllEvents |-> 0]
    /\ pending = [e \in AllEvents |-> 0]
    /\ indexed_repositories = NoRepositories
    /\ repos_file = NoRepositories
    /\ response = NoResponse
    /\ deleted = {}
    /\ NoActivity

(***************************************************************************)
(* Bags of payloads (the collection, the waiting background writes).       *)
(***************************************************************************)
RECURSIVE BagSize(_, _)
BagSize(bag, S) ==
    IF S = {} THEN 0
    ELSE LET e == CHOOSE x \in S : TRUE IN bag[e] + BagSize(bag, S \ {e})

Size(bag) == BagSize(bag, DOMAIN bag)

RECURSIVE Arrangements(_, _)
\* the sequences of n points (all of them if there are fewer) drawn from bag
Arrangements(bag, n) ==
    IF n = 0 \/ \A e \in DOMAIN bag : bag[e] = 0 THEN {<<>>}
    ELSE UNION { { <<e>> \o t : t \in Arrangements([bag EXCEPT ![e] = @ - 1], n - 1) } :
                 e \in {x \in DOMAIN bag : bag[x] > 0} }

(***************************************************************************)
(* Ingestion.                                                              *)
(***************************************************************************)
\* check_commit_exists: a failing scroll is caught and answers False
check_commit_exists(commit_hash) ==
    IF ~qdrant_client \/ commit_hash = "" THEN FALSE
    ELSE IF ~qdrant_up THEN FALSE
    ELSE \E e \in DOMAIN qdrant_points : qdrant_points[e] > 0 /\ e.commit_hash = commit_hash

SavePeriod == 10

\* the registry after ingest_git_event has tracked the repository
TrackRepository(registry, repository) ==
    LET tracked ==
            IF repository # "unknown" /\ repository \notin DOMAIN registry
            THEN registry @@ (repository :>
                     [path |-> repository, commit_count |-> 0, selected |-> TRUE])
            ELSE registry
    IN  IF repository \in DOMAIN tracked
        THEN [tracked EXCEPT ![repository].commit_count = @ + 1]
        ELSE tracked

\* POST /api/ingest/git
ingest_git_event(event) ==
    LET commit_hash == event.commit_hash
        stored == Stored(event)
        repository == stored.repository
        registry == TrackRepository(indexed_repositories, repository)
    IN  /\ Len(git_events) < MaxEvents
        /\ repository \in DOMAIN indexed_repositories
               => indexed_repositories[repository].commit_count < MaxCommitCount
        /\ indexed_repositories' = registry
        /\ repos_file' =
               IF repository \in DOMAIN registry
                  /\ registry[repository].commit_count % SavePeriod = 0
               THEN registry ELSE repos_file
        /\ deleted' = deleted \ {repository}
        /\ IF commit_hash # "" /\ check_commit_exists(commit_hash)
           THEN /\ response' = [op |-> "ingest", status |-> "duplicate"]
                /\ UNCHANGED <<git_events, pending>>
           ELSE /\ git_events' = Append(git_events, stored)
                /\ pending' = IF qdrant_client
                              THEN [pending EXCEPT ![stored] = @ + 1]
                              ELSE pending
                /\ response' = [op |-> "ingest", status |-> "success"]
        /\ UNCHANGED <<process, qdrant_client, embedding_model, qdrant_up, qdrant_points>>

\* the background task store_in_qdrant(event, event_id): a failing upsert is
\* caught and the point is not written
store_in_qdrant(event) ==
    /\ pending[event] > 0
    /\ pending' = [pending EXCEPT ![event] = @ - 1]
    /\ qdrant_points' =
           IF qdrant_client /\ embedding_model /\ qdrant_up
           THEN [qdrant_points EXCEPT ![event] = @ + 1]
           ELSE qdrant_points
    /\ response' = NoResponse
    /\ UNCHANGED <<process, qdrant_client, embedding_model, qdrant_up, git_events,
                   indexed_repositories, repos_file, deleted>>

\* the Qdrant service goes away or comes back
QdrantChanges ==
    /\ qdrant_client
    /\ qdrant_up' = ~qdrant_up
    /\ response' = NoResponse
    /\ UNCHANGED <<process, qdrant_client, embedding_model, git_events, qdrant_points,
                   pending, indexed_repositories, repos_file, deleted>>

(***************************************************************************)
(* DELETE /api/repositories/{repo_path}                                    *)
(***************************************************************************)
RemoveKey(registry, key) == [p \in DOMAIN registry \ {key} |-> registry[p]]

\* a delete that empties git_events and the registry before it calls the
\* index
delete_memory_first(repo_path) ==
    IF repo_path \notin DOMAIN indexed_repositories
    THEN /\ response' = [op |-> "delete", status |-> "not_found"]
         /\ UNCHANGED <<process, qdrant_client, embedding_model, qdrant_up, git_events,
                        qdrant_points, pending, indexed_repositories,
                        repos_file, deleted>>
    ELSE /\ git_events' = SelectSeq(git_events, LAMBDA e : e.repository # repo_path)
         /\ indexed_repositories' = RemoveKey(indexed_repositories, repo_path)
         /\ repos_file' = indexed_repositories'
         /\ IF qdrant_client /\ ~qdrant_up
            THEN /\ response' = [op |-> "delete", status |-> "error"]
                 /\ UNCHANGED <<qdrant_points, deleted>>
            ELSE /\ qdrant_points' =
                        IF qdrant_client
                        THEN [e \in DOMAIN qdrant_points |->
                                 IF e.repository = repo_path THEN 0
                                 ELSE qdrant_points[e]]
                        ELSE qdrant_points
                 /\ deleted' = deleted \cup {repo_path}
                 /\ response' = [op |-> "delete", status |-> "success"]
         /\ UNCHANGED <<process, qdrant_client, embedding_model, qdrant_up, pending>>

delete_repository(repo_path) ==
    IF repo_path \notin DOMAIN indexed_repositories
    THEN /\ response' = [op |-> "delete", status |-> "not_found"]
         /\ UNCHANGED <<process, qdrant_client, embedding_model, qdrant_up, git_events,
                        qdrant_points, pending, indexed_repositories,
                        repos_file, deleted>>
    ELSE IF qdrant_client /\ ~qdrant_up
    THEN /\ response' = [op |-> "delete", status |-> "error"]
         /\ UNCHANGED <<process, qdrant_client, embedding_model, qdrant_up, git_events,
                        qdrant_points, pending, indexed_repositories,
                        repos_file, deleted>>
    ELSE /\ qdrant_points' =
                IF qdrant_client
                THEN [e \in DOMAIN qdrant_points |->
                         IF e.repository = repo_path THEN 0 ELSE qdrant_points[e]]
                ELSE qdrant_points
         /\ git_events' = SelectSeq(git_events, LAMBDA e : e.repository # repo_path)
         /\ indexed_repositories' = RemoveKey(indexed_repositories, repo_path)
         /\ repos_file' = indexed_repositories'
         /\ deleted' = deleted \cup {repo_path}
         /\ response' = [op |-> "delete", status |-> "success"]
         /\ UNCHANGED <<process, qdrant_client, embedding_model, qdrant_up, pending>>

(***************************************************************************)
(* classify_query_type: the if/elif chain over the lower-cased query.      *)
(***************************************************************************)
AnyIn(s, phrases) == \E p \in phrases : Contains(s, p)

HexChars == {"a","b","c","d","e","f","A","B","C","D","E","F",
             "0","1","2","3","4","5","6","7","8","9"}
Digits == {"0","1","2","3","4","5","6","7","8","9"}

\* \w of the re module, for ASCII text
IsWordChar(c) ==
    \/ c \in Digits
    \/ c = "_"
    \/ \E k \in 1..Len(Upper) : c = Upper[k] \/ c = LowerCase[k]

CharAt(s, i) == SubSeq(s, i, i)

HexMin == 6
HexMax == 40

\* s[i..j] is a match of \b[a-fA-F0-9]{6,40}\b
IsHexMatch(s, i, j) ==
    /\ j - i + 1 >= HexMin
    /\ j - i + 1 <= HexMax
    /\ \A k \in i..j : CharAt(s, k) \in HexChars
    /\ (i = 1 \/ ~IsWordChar(CharAt(s, i - 1)))
    /\ (j = Len(s) \/ ~IsWordChar(CharAt(s, j + 1)))

\* re.search(r'\b[a-fA-F0-9]{6,40}\b', s) finds a match
HasHexToken(s) ==
    \E i \in 1..Len(s) : \E j \in i..Len(s) : IsHexMatch(s, i, j)

LatestCommitPhrases == {"latest commit", "most recent commit", "last commit",
                        "newest commit", "recent commit", "show the latest"}
SummaryPhrases == {"summarize", "summary", "overview", "describe repo",
                   "tell me about", "what is this repo"}
ListPhrases == {"show all commits", "list commits", "all the commits",
                "every commit", "commit list"}
CommitWords == {"commit"}
ActionWords == {"show", "explain", "what", "analyze", "details"}
RecentPhrases == {"recent changes", "what changed recently", "latest changes"}
ComparePhrases == {"compare", "difference", "changed from", "vs", "versus"}
TimelineWords == {"timeline", "history", "chronological", "when", "evolution"}
AuthorWords == {"who", "author", "contributor", "developer"}

\* the chain with the summary test written first
classify_summary_first(query_lower) ==
    IF AnyIn(query_lower, SummaryPhrases) THEN "repository_summary"
    ELSE IF AnyIn(query_lower, LatestCommitPhrases) THEN "latest_commit"
    ELSE IF AnyIn(query_lower, ListPhrases) THEN "list_commits"
    ELSE IF AnyIn(query_lower, CommitWords) /\ AnyIn(query_lower, ActionWords)
         THEN IF HasHexToken(query_lower) THEN "specific_commit"
              ELSE "general_commit_query"
    ELSE IF AnyIn(query_lower, RecentPhrases) THEN "recent_changes"
    ELSE IF AnyIn(query_lower, ComparePhrases) THEN "commit_comparison"
    ELSE IF AnyIn(query_lower, TimelineWords) THEN "timeline"
    ELSE IF AnyIn(query_lower, AuthorWords) THEN "author_analysis"
    ELSE "general"

classify_query_type(query_lower) ==
    IF AnyIn(query_lower, LatestCommitPhrases) THEN "latest_commit"
    ELSE IF AnyIn(query_lower, SummaryPhrases) THEN "repository_summary"
    ELSE IF AnyIn(query_lower, ListPhrases) THEN "list_commits"
    ELSE IF AnyIn(query_lower, CommitWords) /\ AnyIn(query_lower, ActionWords)
         THEN IF HasHexToken(query_lower) THEN "specific_commit"
              ELSE "general_commit_query"
    ELSE IF AnyIn(query_lower, RecentPhrases) THEN "recent_changes"
    ELSE IF AnyIn(query_lower, ComparePhrases) THEN "commit_comparison"
    ELSE IF AnyIn(query_lower, TimelineWords) THEN "timeline"
    ELSE IF AnyIn(query_lower, AuthorWords) THEN "author_analysis"
    ELSE "general"

(***************************************************************************)
(* Retrieval.                                                              *)
(***************************************************************************)
RECURSIVE InsertByTimestampDesc(_, _)
\* e placed behind every element whose timestamp is not smaller
InsertByTimestampDesc(sorted, e) ==
    IF sorted = <<>> THEN <<e>>
    ELSE IF Head(sorted).timestamp >= e.timestamp
         THEN <<Head(sorted)>> \o InsertByTimestampDesc(Tail(sorted), e)
         ELSE <<e>> \o sorted

RECURSIVE SortInto(_, _)
SortInto(sorted, events) ==
    IF events = <<>> THEN sorted
    ELSE SortInto(InsertByTimestampDesc(sorted, Head(events)), Tail(events))

Reverse(s) == [i \in 1..Len(s) |-> s[Len(s) + 1 - i]]

\* the sort with reverse=True left out
SortByTimestampAsc(events) == Reverse(SortInto(<<>>, events))

\* sorted(events, key=lambda x: x.get('timestamp', ''), reverse=True): stable
SortByTimestampDesc(events) == SortInto(<<>>, events)

RECURSIVE UniqueFrom(_, _)
UniqueFrom(events, seen) ==
    IF events = <<>> THEN <<>>
    ELSE IF Head(events).commit_hash \in seen
         THEN UniqueFrom(Tail(events), seen)
         ELSE <<Head(events)>> \o
              UniqueFrom(Tail(events), seen \cup {Head(events).commit_hash})

\* the seen / unique_events loop of search_similar
RemoveDuplicates(events) == UniqueFrom(events, {})

\* target_branches, read back from branch_filter['should']
TargetBranches(branches) == {branches[i] : i \in DOMAIN branches}

BranchMatch(e, branches) ==
    \/ e.primary_branch \in TargetBranches(branches)
    \/ \E branch \in e.all_branches : branch \in TargetBranches(branches)

FilterBranches(events, branches) ==
    IF branches # <<>>
    THEN SelectSeq(events, LAMBDA e : BranchMatch(e, branches))
    ELSE events

\* the branch of search_similar taken without client or model
SearchInMemory(limit, repository, branches, temporal_priority) ==
    LET by_repo == IF repository # ""
                   THEN SelectSeq(git_events, LAMBDA e : e.repository = repository)
                   ELSE git_events
        by_branch == FilterBranches(by_repo, branches)
        ordered == IF temporal_priority THEN SortByTimestampDesc(by_branch)
                   ELSE by_branch
    IN  Take(ordered, limit)

\* the query_filter of search_similar: one condition is a "must", several
\* (the repository and the branch conditions together) are one "should"
FilterMatches(e, repository, branches) ==
    LET conditions == (IF repository # "" THEN 1 ELSE 0) + 2 * Len(branches)
    IN  IF conditions = 0 THEN TRUE
        ELSE IF conditions = 1 THEN e.repository = repository
        ELSE \/ (repository # "" /\ e.repository = repository)
             \/ BranchMatch(e, branches)

\* the hit lists qdrant_client.search may return: limit points that pass
\* the filter, in the order of their similarity to the query
SearchHits(limit, repository, branches) ==
    Arrangements([e \in DOMAIN qdrant_points |->
                     IF FilterMatches(e, repository, branches)
                     THEN qdrant_points[e] ELSE 0], limit)

\* search_similar: the results it may return
search_similar(limit, repository, branches, temporal_priority) ==
    IF ~qdrant_client \/ ~embedding_model
    THEN {SearchInMemory(limit, repository, branches, temporal_priority)}
    ELSE IF ~qdrant_up THEN {<<>>}
    ELSE { RemoveDuplicates(IF temporal_priority THEN SortByTimestampDesc(hits)
                            ELSE hits) :
           hits \in SearchHits(limit, repository, branches) }

\* the in-memory branch of search_similar_with_temporal_priority
TemporalInMemory(limit, repository, branches) ==
    LET by_repo == IF repository # ""
                   THEN SelectSeq(git_events,
                                  LAMBDA e : Contains(e.repository, repository))
                   ELSE git_events
    IN  Take(SortByTimestampDesc(FilterBranches(by_repo, branches)), limit)

\* search_similar_with_temporal_priority with temporal_priority=True
search_temporal(limit, repository, branches) ==
    IF ~qdrant_client \/ ~embedding_model
    THEN {TemporalInMemory(limit, repository, branches)}
    ELSE { Take(SortByTimestampDesc(FilterBranches(semantic_results, branches)),
                limit) :
           semantic_results \in search_similar(limit * 2, repository, <<>>, FALSE) }

(***************************************************************************)
(* POST /api/query                                                         *)
(***************************************************************************)
TemporalKeywords == {"latest", "recent", "newest", "last", "most recent",
                     "show the latest"}

\* the keyword test on the query as it was typed
is_temporal_as_typed(query) == AnyIn(query, TemporalKeywords)

is_temporal_query(query) == AnyIn(Lower(query), TemporalKeywords)

SummaryWindow == 50

\* one entry of formatted_sources
Source(event) ==
    [commit |-> IF event.commit_hash # "" THEN Take(event.commit_hash, 8) ELSE "",
     repository |-> event.repository,
     timestamp |-> event.timestamp,
     primary_branch |-> event.primary_branch,
     all_branches |-> event.all_branches]

formatted_sources(similar_events, limit) ==
    [i \in 1..Min(limit, Len(similar_events)) |-> Source(similar_events[i])]

\* generate_intelligent_answer raises: the name compare_commits is bound to
\* the later definition, the one-parameter handler of /api/commits/compare
AnswerRaises(query_type, events) ==
    events # <<>> /\ query_type = "commit_comparison"

\* what the answer of generate_intelligent_answer is made from
Answer(query_type, events) ==
    IF events = <<>> THEN [kind |-> "No relevant events found."]
    ELSE IF query_type = "repository_summary"
         THEN [kind |-> query_type, total_commits |-> Len(events)]
         ELSE [kind |-> query_type]

\* the event lists the retrieval step of query_context may produce; Failed
\* stands for the NameError of the call of search_with_filters, which no
\* file defines
Failed == "raised"

\* per request text: is_temporal_query, the retrieval window of a semantic
\* request and the query type, each computed once
IsTemporal == [query \in QueryTexts |-> is_temporal_query(query)]
HasSummar == [query \in QueryTexts |-> Contains(Lower(query), "summar")]
QueryType == [query \in QueryTexts |-> classify_query_type(Lower(query))]

Retrieved(query, limit, repository, branches) ==
    IF IsTemporal[query] \/ branches # <<>>
    THEN IF IsTemporal[query]
         THEN search_temporal(limit * 2, repository, branches)
         ELSE {Failed}
    ELSE search_similar(IF HasSummar[query] THEN SummaryWindow ELSE limit * 2,
                        repository, <<>>, FALSE)

\* the responses query_context may give
QueryOutcomes(query, limit, repository, branches) ==
    LET query_type == QueryType[query]
        request == [op |-> "query", query |-> query, limit |-> limit,
                    repository |-> repository, branches |-> branches]
    IN  { IF similar_events = Failed \/ AnswerRaises(query_type, similar_events)
          THEN request @@ [status |-> "error"]
          ELSE request @@
               [status |-> "ok",
                answer |-> Answer(query_type, similar_events),
                sources |-> formatted_sources(similar_events, limit)] :
          similar_events \in Retrieved(query, limit, repository, branches) }

\* a handler whose in-memory branch sorts git_events itself (list.sort)
\* instead of a copy of it
query_sorting_in_place(query, limit, repository, branches) ==
    /\ response' \in QueryOutcomes(query, limit, repository, branches)
    /\ git_events' = SortByTimestampDesc(git_events)
    /\ UNCHANGED <<process, qdrant_client, embedding_model, qdrant_up, qdrant_points,
                   pending, indexed_repositories, repos_file, deleted>>

query_context(query, limit, repository, branches) ==
    /\ response' \in QueryOutcomes(query, limit, repository, branches)
    /\ UNCHANGED <<process, qdrant_client, embedding_model, qdrant_up, git_events,
                   qdrant_points, pending, indexed_repositories, repos_file,
                   deleted>>

(***************************************************************************)
(* calculate_confidence, in hundredths.                                    *)
(***************************************************************************)
BaseConfidence == 50      \* confidence = 0.5
SourceStep == 5           \* len(sources) * 0.05
SourceCap == 30           \* min(0.3, ...)
DetailLength == 100       \* len(answer) > 100
DetailBonus == 10         \* confidence += 0.1
ConcreteBonus == 10       \* confidence += 0.1
ConfidenceCap == 95       \* min(0.95, confidence)

ConcretePhrases == {"I found", "Based on"}

\* the sum without the final min(0.95, ...)
confidence_uncapped(query, answer, sources) ==
    BaseConfidence
    + (IF Len(sources) > 0 THEN Min(SourceCap, Len(sources) * SourceStep) ELSE 0)
    + (IF Len(answer) > DetailLength THEN DetailBonus ELSE 0)
    + (IF AnyIn(answer, ConcretePhrases) THEN ConcreteBonus ELSE 0)

calculate_confidence(query, answer, sources) ==
    LET from_sources == IF Len(sources) > 0
                        THEN Min(SourceCap, Len(sources) * SourceStep)
                        ELSE 0
        from_length == IF Len(answer) > DetailLength THEN DetailBonus ELSE 0
        from_phrase == IF AnyIn(answer, ConcretePhrases) THEN ConcreteBonus ELSE 0
    IN  Min(ConfidenceCap,
            BaseConfidence + from_sources + from_length + from_phrase)

(***************************************************************************)
(* generate_intelligent_answer: the answer to a query from the retrieved   *)
(* events.  An answer is the record of what its text is made from.         *)
(***************************************************************************)
\* s.startswith(p)
StartsWith(s, p) == Len(p) <= Len(s) /\ SubSeq(s, 1, Len(p)) = p

\* extract_commit_hash: the first match of re.findall, "" without a match
extract_commit_hash(query) ==
    IF ~HasHexToken(query) THEN ""
    ELSE LET starts == {i \in 1..Len(query) :
                          \E j \in i..Len(query) : IsHexMatch(query, i, j)}
             i == CHOOSE first \in starts : \A other \in starts : first <= other
             j == CHOOSE last \in i..Len(query) : IsHexMatch(query, i, last)
         IN  SubSeq(query, i, j)

\* the states of the Ollama service when query_llm posts a prompt
LlmStates == {"reply", "empty_reply", "error_status", "timeout", "unreachable"}

\* a call of query_llm that lets the failure of the post escape
query_llm_raising(llm) ==
    IF llm = "reply" THEN "Based on the commits ..."
    ELSE IF llm \in {"empty_reply", "error_status"} THEN ""
    ELSE "raised"

\* query_llm: the "response" of a 200 reply, "" in every other case
query_llm(llm) ==
    IF llm = "reply" THEN "Based on the commits ..." ELSE ""

\* generate_detailed_commit_analysis: the report on one commit
CommitAnalysis(commit) ==
    [kind |-> "commit_analysis", commit |-> Take(commit.commit_hash, 8),
     target |-> commit]

NotFound == [kind |-> "Could not find the specified commit."]

\* the report on events[0], whatever the query names
analyze_first_commit(events, query) ==
    IF events = <<>> THEN NotFound ELSE CommitAnalysis(events[1])

analyze_specific_commit(events, query) ==
    LET commit_hash == extract_commit_hash(query)
        found == {i \in DOMAIN events : StartsWith(events[i].commit_hash, commit_hash)}
    IN  IF commit_hash # ""
        THEN IF found = {} THEN NotFound
             ELSE CommitAnalysis(
                      events[CHOOSE i \in found : \A k \in found : i <= k])
        ELSE IF events = <<>> THEN NotFound ELSE CommitAnalysis(events[1])

get_latest_commit(events) ==
    IF events = <<>> THEN [kind |-> "No commits found."]
    ELSE CommitAnalysis(Head(SortByTimestampDesc(events)))

GenericTerms == {"commit", "show commit", "what commit", "tell me about commit"}

handle_general_commit_query(events, query) ==
    IF AnyIn(Lower(query), GenericTerms) THEN get_latest_commit(events)
    ELSE analyze_specific_commit(events, query)

ListingLength == 5

\* generate_fallback_response
generate_fallback_response(query, events) ==
    IF events = <<>> THEN [kind |-> "No relevant events found."]
    ELSE [kind |-> "listing", found |-> Len(events),
          commits |-> [i \in 1..Min(ListingLength, Len(events)) |->
                          Take(events[i].commit_hash, 8)],
          more |-> IF Len(events) > ListingLength
                   THEN Len(events) - ListingLength ELSE 0]

Raised == [kind |-> "raised"]

\* the dispatch on the query type, entered with any list of events
AnswerForType(query, events, llm) ==
    LET query_type == classify_query_type(Lower(query))
    IN  IF AnswerRaises(query_type, events) THEN Raised
        ELSE IF query_type = "specific_commit"
             THEN analyze_specific_commit(events, query)
        ELSE IF query_type = "general_commit_query"
             THEN handle_general_commit_query(events, query)
        ELSE IF query_type = "latest_commit" THEN get_latest_commit(events)
        ELSE IF query_type = "general"
             THEN LET llm_response == IF events = <<>> THEN "" ELSE query_llm(llm)
                  IN  IF llm_response = "raised" THEN Raised
                      ELSE IF llm_response # ""
                      THEN [kind |-> "llm", text |-> llm_response]
                      ELSE generate_fallback_response(query, events)
        ELSE Answer(query_type, events)

\* the dispatch without the test for an empty list in front of it
answer_without_guard(query, events, llm) ==
    IF classify_query_type(Lower(query)) = "commit_comparison" THEN Raised
    ELSE AnswerForType(query, events, llm)

generate_intelligent_answer(query, events, llm) ==
    IF events = <<>> THEN [kind |-> "No relevant events found."]
    ELSE AnswerForType(query, events, llm)

(***************************************************************************)
(* The system.                                                             *)
(***************************************************************************)
\* a request arrives while fewer than MaxPending background writes wait
Ingest ==
    /\ Size(pending) < MaxPending
    /\ \E event \in CommitInputs : ingest_git_event(event)
StoreInQdrant == \E event \in AllEvents : store_in_qdrant(event)
DeleteRepository == \E repo_path \in RepoPaths : delete_repository(repo_path)
\* a request without branches
Query ==
    \E query \in QueryTexts, limit \in Limits,
       repository \in RepoPaths \cup {NoRepository} :
        query_context(query, limit, repository, <<>>)

\* a request that names branches
QueryBranches ==
    \E query \in QueryTexts, limit \in Limits,
       repository \in RepoPaths \cup {NoRepository},
       branches \in BranchLists \ {<<>>} :
        query_context(query, limit, repository, branches)

Next ==
    \/ Ingest
    \/ StoreInQdrant
    \/ QdrantChanges
    \/ DeleteRepository
    \/ Query

Spec == Init /\ [][Next]_vars

(***************************************************************************)
(* The store after the first k commits of History were ingested in order,  *)
(* every background write done, with the services as they were at startup. *)
(***************************************************************************)
HistoryPrefix(k) == SubSeq(History, 1, k)

InitHistory ==
    /\ qdrant_client \in BOOLEAN
    /\ embedding_model \in BOOLEAN
    /\ qdrant_up = qdrant_client
    /\ \E k \in 0..Len(History) :
        /\ git_events = HistoryPrefix(k)
        /\ qdrant_points =
               [e \in AllEvents |->
                   IF qdrant_client /\ embedding_model
                      /\ \E i \in 1..k : History[i] = e
                   THEN 1 ELSE 0]
        /\ indexed_repositories =
               IF k = 0 THEN NoRepositories
               ELSE ("/r" :> [path |-> "/r", commit_count |-> k, selected |-> TRUE])
    /\ pending = [e \in AllEvents |-> 0]
    /\ repos_file = NoRepositories
    /\ response = NoResponse
    /\ deleted = {}
    /\ NoActivity

NextRetrieval ==
    \/ Query
    \/ QueryBranches

SpecHistory == InitHistory /\ [][NextRetrieval]_vars

(***************************************************************************)
(* The process after lifespan() met a Qdrant that holds a collection: the  *)
(* points were loaded into git_events in the order scroll gave them, or    *)
(* the load failed and git_events is empty; repositories.json is absent.   *)
(***************************************************************************)
StoredInputs == {Stored(c) : c \in CommitInputs}

\* the collections of at most MaxLoaded points over StoredInputs
Collections ==
    { points \in [AllEvents -> 0..MaxLoaded] :
        /\ Size(points) <= MaxLoaded
        /\ \A e \in AllEvents : points[e] > 0 => e \in StoredInputs }

InitRetrieval ==
    /\ qdrant_client \in BOOLEAN
    /\ embedding_model \in BOOLEAN
    /\ qdrant_up \in BOOLEAN
    /\ (~qdrant_client => ~qdrant_up)
    /\ qdrant_points \in Collections
    /\ git_events \in
           IF qdrant_client
           THEN Arrangements(qdrant_points, MaxLoaded) \cup {<<>>}
           ELSE {<<>>}
    /\ pending = [e \in AllEvents |-> 0]
    /\ indexed_repositories = NoRepositories
    /\ repos_file = NoRepositories
    /\ response = NoResponse
    /\ deleted = {}
    /\ NoActivity

SpecRetrieval == InitRetrieval /\ [][NextRetrieval]_vars

(***************************************************************************)
(* calculate_confidence and classify_query_type on their own: the idle     *)
(* process, and one call per step.                                         *)
(***************************************************************************)
InitIdle ==
    /\ qdrant_client = FALSE
    /\ embedding_model = FALSE
    /\ qdrant_up = FALSE
    /\ git_events = <<>>
    /\ qdrant_points = [e \in AllEvents |-> 0]
    /\ pending = [e \in AllEvents |-> 0]
    /\ indexed_repositories = NoRepositories
    /\ repos_file = NoRepositories
    /\ response = NoResponse
    /\ deleted = {}
    /\ NoActivity

RECURSIVE Pad(_)
\* n characters of text
Pad(n) == IF n = 0 THEN "" ELSE "x" \o Pad(n - 1)

AnswerHeads == {"", "I found ", "Based on ", "i found ", "We based on "}
PadLengths == {0, 88, 89, 92, 93, 100, 101}
Answers == {head \o Pad(n) : head \in AnswerHeads, n \in PadLengths}
SourceLists == {[i \in 1..n |-> Source(History[1])] : n \in 0..MaxSources}

CalculateConfidence ==
    /\ \E answer \in Answers, sources \in SourceLists :
           response' = [op |-> "confidence", answer |-> answer,
                        sources |-> sources,
                        confidence |->
                            calculate_confidence("overview", answer, sources)]
    /\ UNCHANGED <<process, qdrant_client, embedding_model, qdrant_up, git_events,
                   qdrant_points, pending, indexed_repositories, repos_file,
                   deleted>>

SpecConfidence == InitIdle /\ [][CalculateConfidence]_vars

QueryParts == {"latest commit", "Summary", "list commits", "explain commit abc123",
               "show commit abc12", "recent changes", "compare", "timeline",
               "author", "hello", "Show The Latest"}
ClassifyQueries ==
    {first \o " " \o second : first \in QueryParts, second \in QueryParts}
    \cup QueryParts \cup {"explain the latest commit's refactor", ""}
    \cup {"Please " \o phrase \o " now" :
              phrase \in LatestCommitPhrases \cup RecentPhrases}

\* generate_intelligent_answer: query_type = classify_query_type(query.lower())
Classify ==
    /\ \E query \in ClassifyQueries :
           response' = [op |-> "classify", query |-> query,
                        query_type |-> classify_query_type(Lower(query))]
    /\ UNCHANGED <<process, qdrant_client, embedding_model, qdrant_up, git_events,
                   qdrant_points, pending, indexed_repositories, repos_file,
                   deleted>>

SpecClassify == InitIdle /\ [][Classify]_vars

(***************************************************************************)
(* The registry and lookup operations: select_repository, start_ingestion, *)
(* get_commit_details and the handler of /api/commits/compare.             *)
(***************************************************************************)
\* a select that registers the path it does not find
select_or_create(repository, selected) ==
    /\ indexed_repositories' =
           IF repository \in DOMAIN indexed_repositories
           THEN [indexed_repositories EXCEPT ![repository].selected = selected]
           ELSE indexed_repositories @@ (repository :>
                    [path |-> repository, commit_count |-> 0, selected |-> selected])
    /\ repos_file' = indexed_repositories'
    /\ response' = [op |-> "select", status |-> "success"]
    /\ UNCHANGED <<process, qdrant_client, embedding_model, qdrant_up, git_events,
                   qdrant_points, pending, deleted>>

\* POST /api/repositories/select
select_repository(repository, selected) ==
    IF repository \in DOMAIN indexed_repositories
    THEN /\ indexed_repositories' =
                [indexed_repositories EXCEPT ![repository].selected = selected]
         /\ repos_file' = indexed_repositories'
         /\ response' = [op |-> "select", status |-> "success"]
         /\ UNCHANGED <<process, qdrant_client, embedding_model, qdrant_up, git_events,
                        qdrant_points, pending, deleted>>
    ELSE /\ response' = [op |-> "select", status |-> "not_found"]
         /\ UNCHANGED <<process, qdrant_client, embedding_model, qdrant_up, git_events,
                        qdrant_points, pending, indexed_repositories,
                        repos_file, deleted>>

\* POST /api/ingest/start: the registry is updated before the repository is
\* looked at; check_repository_status runs git in repo_path, which may fail,
\* find every commit indexed or find commits to ingest
start_ingestion(repo_path) ==
    IF repo_path = ""
    THEN /\ response' = [op |-> "start", status |-> "invalid"]
         /\ UNCHANGED <<process, qdrant_client, embedding_model, qdrant_up, git_events,
                        qdrant_points, pending, indexed_repositories,
                        repos_file, deleted>>
    ELSE LET normalized_path == normalize_repo_path(repo_path)
             kept == {existing_path \in DOMAIN indexed_repositories :
                         ~(/\ normalize_repo_path(existing_path) = normalized_path
                           /\ existing_path # normalized_path)}
             pruned == [existing_path \in kept |->
                           indexed_repositories[existing_path]]
         IN  /\ indexed_repositories' =
                    IF normalized_path \in DOMAIN pruned THEN pruned
                    ELSE pruned @@ (normalized_path :>
                             [path |-> normalized_path, commit_count |-> 0,
                              selected |-> TRUE])
             /\ repos_file' = IF normalized_path \in DOMAIN pruned
                              THEN repos_file ELSE indexed_repositories'
             /\ deleted' = deleted \ {normalized_path}
             /\ \E status \in {"error", "already_complete", "started"} :
                    /\ response' = [op |-> "start", status |-> status]
                    /\ IF status = "started"
                       THEN /\ collectors < MaxCollectors
                            /\ ingestion_status' = [is_ingesting |-> TRUE]
                            /\ collectors' = collectors + 1
                       ELSE UNCHANGED <<ingestion_status, collectors>>
             /\ UNCHANGED <<handlers, running, qdrant_client, embedding_model,
                            qdrant_up, git_events, qdrant_points, pending>>

\* POST /api/ingest/multi-branch: the entry is created when missing, the
\* flag is set and the collector thread is started
start_multi_branch_ingestion(repo_path) ==
    IF repo_path = ""
    THEN /\ response' = [op |-> "start_multi", status |-> "invalid"]
         /\ UNCHANGED <<process, qdrant_client, embedding_model, qdrant_up, git_events,
                        qdrant_points, pending, indexed_repositories,
                        repos_file, deleted>>
    ELSE LET normalized_path == normalize_repo_path(repo_path)
         IN  /\ collectors < MaxCollectors
             /\ indexed_repositories' =
                    IF normalized_path \in DOMAIN indexed_repositories
                    THEN indexed_repositories
                    ELSE indexed_repositories @@ (normalized_path :>
                             [path |-> normalized_path, commit_count |-> 0,
                              selected |-> TRUE])
             /\ repos_file' = IF normalized_path \in DOMAIN indexed_repositories
                              THEN repos_file ELSE indexed_repositories'
             /\ ingestion_status' = [is_ingesting |-> TRUE]
             /\ collectors' = collectors + 1
             /\ response' = [op |-> "start_multi", status |-> "started"]
             /\ UNCHANGED <<handlers, running, qdrant_client, embedding_model,
                            qdrant_up, git_events, qdrant_points, pending,
                            deleted>>

\* the end of a collector thread (run_collector, run_multi_branch_collector):
\* the flag is cleared; the registry is saved unless the subprocess call
\* raised
collector_ends ==
    /\ collectors > 0
    /\ collectors' = collectors - 1
    /\ ingestion_status' = [is_ingesting |-> FALSE]
    /\ repos_file' \in {indexed_repositories, repos_file}
    /\ response' = NoResponse
    /\ UNCHANGED <<handlers, running, qdrant_client, embedding_model,
                   qdrant_up, git_events, qdrant_points, pending,
                   indexed_repositories, deleted>>

MinHashLength == 6

\* the points the scroll of get_commit_details may return: commit_hash
\* equal to the value, or holding it as text
PointsMatching(commit_hash) ==
    {e \in DOMAIN qdrant_points :
        /\ qdrant_points[e] > 0
        /\ (e.commit_hash = commit_hash \/ Contains(e.commit_hash, commit_hash))}

\* the first event of git_events whose hash starts with hash_val, if any
FirstInMemory(hash_val) ==
    LET found == {i \in DOMAIN git_events :
                     StartsWith(git_events[i].commit_hash, hash_val)}
    IN  IF found = {} THEN {}
        ELSE {git_events[CHOOSE i \in found : \A k \in found : i <= k]}

\* GET /api/commits/{commit_hash}
get_commit_details(commit_hash) ==
    LET in_memory == FirstInMemory(commit_hash)
        targets == IF in_memory # {} THEN in_memory
                   ELSE IF qdrant_client /\ qdrant_up
                        THEN PointsMatching(commit_hash)
                        ELSE {}
    IN  /\ response' \in
               IF Len(commit_hash) < MinHashLength
               THEN {[op |-> "details", status |-> "invalid"]}
               ELSE IF targets = {}
               THEN {[op |-> "details", status |-> "not_found"]}
               ELSE {[op |-> "details", status |-> "success",
                      commit |-> target.commit_hash] : target \in targets}
        /\ UNCHANGED <<process, qdrant_client, embedding_model, qdrant_up, git_events,
                       qdrant_points, pending, indexed_repositories,
                       repos_file, deleted>>

\* POST /api/commits/compare (the second definition of compare_commits)
compare_commits(commit_1, commit_2) ==
    /\ response' =
           IF commit_1 = "" \/ commit_2 = ""
           THEN [op |-> "compare", status |-> "invalid"]
           ELSE IF FirstInMemory(commit_1) = {} \/ FirstInMemory(commit_2) = {}
           THEN [op |-> "compare", status |-> "not_found"]
           ELSE [op |-> "compare", status |-> "success",
                 commit_1 |-> (CHOOSE c \in FirstInMemory(commit_1) : TRUE).commit_hash,
                 commit_2 |-> (CHOOSE c \in FirstInMemory(commit_2) : TRUE).commit_hash]
    /\ UNCHANGED <<process, qdrant_client, embedding_model, qdrant_up, git_events,
                   qdrant_points, pending, indexed_repositories, repos_file,
                   deleted>>

\* repository paths as clients write them
RawPaths == {"/r", "/r/", "/r2"}
\* commit references of requests: hashes, a shortened hash, text from inside
\* a hash, a hash no commit has, a reference that is too short, none
CommitRefs == {"aaa111", "ddd444", "dd444d", "abcdef0", "aaa", ""}

\* the references of a comparison: a hash, a shortened hash, a hash no
\* commit has, none
CompareRefs == {"aaa111", "ddd444", "abcdef0", ""}

SelectRepository ==
    \E repository \in RawPaths, selected \in BOOLEAN :
        select_repository(repository, selected)
DeleteRawPath == \E repo_path \in RawPaths : delete_repository(repo_path)
StartIngestion == \E repo_path \in RawPaths \cup {""} : start_ingestion(repo_path)
GetCommitDetails == \E commit_hash \in CommitRefs : get_commit_details(commit_hash)
CompareCommits ==
    \E commit_1 \in CompareRefs, commit_2 \in CompareRefs :
        compare_commits(commit_1, commit_2)

(***************************************************************************)
(* delete_repository statement by statement, as a task of the event loop.  *)
(* A task keeps the loop (running) from its first statement until it       *)
(* awaits or returns; delete_repository has no await, and the Qdrant       *)
(* client it calls is the blocking one.                                    *)
(***************************************************************************)
Ended(t, repo_path, status) ==
    [handlers EXCEPT ![t] = [pc |-> "done", repo_path |-> repo_path,
                             status |-> status]]

At(t, pc) ==
    [handlers EXCEPT ![t].pc = pc]

\* the request is taken up: the test of line 1727
delete_begins(t, repo_path) ==
    /\ handlers[t].pc = "idle"
    /\ running = 0
    /\ IF repo_path \notin DOMAIN indexed_repositories
       THEN /\ handlers' = Ended(t, repo_path, "not_found")
            /\ response' = [op |-> "delete", status |-> "not_found"]
            /\ UNCHANGED running
       ELSE /\ handlers' = [handlers EXCEPT ![t] =
                               [pc |-> "found", repo_path |-> repo_path,
                                status |-> "none"]]
            /\ running' = t
            /\ UNCHANGED response
    /\ UNCHANGED <<ingestion_status, collectors, qdrant_client,
                   embedding_model, qdrant_up, git_events, qdrant_points,
                   pending, indexed_repositories, repos_file, deleted>>

\* a handler that awaits the index calls and so gives up the loop
delete_from_index_awaited(t) ==
    LET repo_path == handlers[t].repo_path
    IN  /\ handlers[t].pc = "found"
        /\ running \in {0, t}
        /\ IF qdrant_client /\ ~qdrant_up
           THEN /\ handlers' = Ended(t, repo_path, "error")
                /\ response' = [op |-> "delete", status |-> "error"]
                /\ UNCHANGED qdrant_points
           ELSE /\ qdrant_points' =
                       IF qdrant_client
                       THEN [e \in DOMAIN qdrant_points |->
                                IF e.repository = repo_path THEN 0
                                ELSE qdrant_points[e]]
                       ELSE qdrant_points
                /\ handlers' = At(t, "index_done")
                /\ UNCHANGED response
        /\ running' = 0
        /\ UNCHANGED <<ingestion_status, collectors, qdrant_client,
                       embedding_model, qdrant_up, git_events, pending,
                       indexed_repositories, repos_file, deleted>>

\* the scroll and the delete of the points (lines 1731-1765); a failing call
\* leaves the try block and the request is answered 500
delete_from_index(t) ==
    LET repo_path == handlers[t].repo_path
    IN  /\ handlers[t].pc = "found"
        /\ running \in {0, t}
        /\ IF qdrant_client /\ ~qdrant_up
           THEN /\ handlers' = Ended(t, repo_path, "error")
                /\ response' = [op |-> "delete", status |-> "error"]
                /\ running' = 0
                /\ UNCHANGED qdrant_points
           ELSE /\ qdrant_points' =
                       IF qdrant_client
                       THEN [e \in DOMAIN qdrant_points |->
                                IF e.repository = repo_path THEN 0
                                ELSE qdrant_points[e]]
                       ELSE qdrant_points
                /\ handlers' = At(t, "index_done")
                /\ running' = t
                /\ UNCHANGED response
        /\ UNCHANGED <<ingestion_status, collectors, qdrant_client,
                       embedding_model, qdrant_up, git_events, pending,
                       indexed_repositories, repos_file, deleted>>

\* line 1769
delete_from_memory(t) ==
    LET repo_path == handlers[t].repo_path
    IN  /\ handlers[t].pc = "index_done"
        /\ running \in {0, t}
        /\ git_events' = SelectSeq(git_events, LAMBDA e : e.repository # repo_path)
        /\ handlers' = At(t, "memory_done")
        /\ running' = t
        /\ UNCHANGED <<ingestion_status, collectors, qdrant_client,
                       embedding_model, qdrant_up, qdrant_points, pending,
                       indexed_repositories, repos_file, response, deleted>>

\* lines 1772-1779: del raises KeyError when the entry is gone
delete_from_registry(t) ==
    LET repo_path == handlers[t].repo_path
    IN  /\ handlers[t].pc = "memory_done"
        /\ running \in {0, t}
        /\ IF repo_path \in DOMAIN indexed_repositories
           THEN /\ indexed_repositories' = RemoveKey(indexed_repositories, repo_path)
                /\ repos_file' = indexed_repositories'
                /\ deleted' = deleted \cup {repo_path}
                /\ handlers' = Ended(t, repo_path, "success")
                /\ response' = [op |-> "delete", status |-> "success"]
           ELSE /\ handlers' = Ended(t, repo_path, "error")
                /\ response' = [op |-> "delete", status |-> "error"]
                /\ UNCHANGED <<indexed_repositories, repos_file, deleted>>
        /\ running' = 0
        /\ UNCHANGED <<ingestion_status, collectors, qdrant_client,
                       embedding_model, qdrant_up, git_events, qdrant_points,
                       pending>>

DeleteBegins ==
    \E t \in Requests, repo_path \in RawPaths : delete_begins(t, repo_path)
DeleteFromIndex == \E t \in Requests : delete_from_index(t)
DeleteFromMemory == \E t \in Requests : delete_from_memory(t)
DeleteFromRegistry == \E t \in Requests : delete_from_registry(t)

\* delete requests that arrive at any time, in a process that ingested a
\* prefix of History
NextDeletes ==
    \/ DeleteBegins
    \/ DeleteFromIndex
    \/ DeleteFromMemory
    \/ DeleteFromRegistry
    \/ QdrantChanges

SpecDeletes == InitHistory /\ [][NextDeletes]_vars

StartMultiBranch ==
    \E repo_path \in RawPaths \cup {""} : start_multi_branch_ingestion(repo_path)

\* the two handlers that start a collector thread, and the threads
NextCollectors ==
    \/ StartIngestion
    \/ StartMultiBranch
    \/ collector_ends

SpecCollectors == Init /\ [][NextCollectors]_vars

\* the operations on the registry
NextRegistry ==
    \/ Ingest
    \/ StoreInQdrant
    \/ SelectRepository
    \/ DeleteRawPath
    \/ StartIngestion

SpecRegistry == Init /\ [][NextRegistry]_vars

\* the operations that look up a repository or a commit, in a process that
\* started on a filled collection or that ingested a prefix of History
InitLookup == InitRetrieval \/ InitHistory

NextLookup ==
    \/ QdrantChanges
    \/ SelectRepository
    \/ DeleteRawPath
    \/ GetCommitDetails
    \/ CompareCommits

SpecLookup == InitLookup /\ [][NextLookup]_vars

\* requests that arrive while the background write of an earlier request
\* still waits
IngestOverlapping ==
    /\ Size(pending) < MaxOverlap
    /\ \E event \in CommitInputs : ingest_git_event(event)

NextOverlap ==
    \/ IngestOverlapping
    \/ StoreInQdrant

SpecOverlap == Init /\ [][NextOverlap]_vars

\* ingestion that also receives a body without a commit_hash, and queries
IngestHashless ==
    /\ Size(pending) < MaxPending
    /\ ingest_git_event(HashlessCommit)

NextIntegrity ==
    \/ Ingest
    \/ IngestHashless
    \/ StoreInQdrant
    \/ Query

SpecIntegrity == Init /\ [][NextIntegrity]_vars

(***************************************************************************)
(* The maintenance operations.                                             *)
(***************************************************************************)
\* POST /api/cleanup: git_events is filtered first, then the points without
\* a commit_hash are deleted; a failing index call is answered "error"
cleanup_bad_entries ==
    /\ git_events' = SelectSeq(git_events, LAMBDA e : e.commit_hash # "")
    /\ IF qdrant_client /\ ~qdrant_up
       THEN /\ response' = [op |-> "cleanup", status |-> "error"]
            /\ UNCHANGED qdrant_points
       ELSE /\ qdrant_points' =
                   IF qdrant_client
                   THEN [e \in DOMAIN qdrant_points |->
                            IF e.commit_hash = "" THEN 0 ELSE qdrant_points[e]]
                   ELSE qdrant_points
            /\ response' = [op |-> "cleanup", status |-> "success"]
    /\ UNCHANGED <<process, qdrant_client, embedding_model, qdrant_up, pending,
                   indexed_repositories, repos_file, deleted>>

\* POST /api/repositories/cleanup: the points whose repository is not a key
\* of the registry are deleted
cleanup_orphaned_commits ==
    /\ IF ~qdrant_client \/ ~qdrant_up
       THEN /\ response' = [op |-> "cleanup_orphaned", status |-> "error"]
            /\ UNCHANGED qdrant_points
       ELSE /\ qdrant_points' =
                   [e \in DOMAIN qdrant_points |->
                       IF e.repository # ""
                          /\ e.repository \notin DOMAIN indexed_repositories
                       THEN 0 ELSE qdrant_points[e]]
            /\ response' = [op |-> "cleanup_orphaned", status |-> "success"]
    /\ UNCHANGED <<process, qdrant_client, embedding_model, qdrant_up, git_events,
                   pending, indexed_repositories, repos_file, deleted>>

\* DELETE /api/repositories/clear: the registry only
clear_all_repositories ==
    /\ indexed_repositories' = NoRepositories
    /\ repos_file' = NoRepositories
    /\ response' = [op |-> "clear_repositories", status |-> "success"]
    /\ UNCHANGED <<process, qdrant_client, embedding_model, qdrant_up, git_events,
                   qdrant_points, pending, deleted>>

\* DELETE /api/clear: git_events, then the collection
clear_all_data ==
    /\ git_events' = <<>>
    /\ IF qdrant_client /\ ~qdrant_up
       THEN /\ response' = [op |-> "clear", status |-> "error"]
            /\ UNCHANGED qdrant_points
       ELSE /\ qdrant_points' =
                   IF qdrant_client THEN [e \in DOMAIN qdrant_points |-> 0]
                   ELSE qdrant_points
            /\ response' = [op |-> "clear", status |-> "success"]
    /\ UNCHANGED <<process, qdrant_client, embedding_model, qdrant_up, pending,
                   indexed_repositories, repos_file, deleted>>

\* POST /api/reset: the registry, git_events and the file; a failing index
\* call is passed over
reset_everything ==
    /\ indexed_repositories' = NoRepositories
    /\ git_events' = <<>>
    /\ repos_file' = NoRepositories
    /\ qdrant_points' =
           IF qdrant_client /\ qdrant_up THEN [e \in DOMAIN qdrant_points |-> 0]
           ELSE qdrant_points
    /\ response' = [op |-> "reset", status |-> "success"]
    /\ UNCHANGED <<process, qdrant_client, embedding_model, qdrant_up, pending, deleted>>

\* an ingest without a commit_hash while the collection and the waiting
\* writes together hold fewer than MaxLoaded points
IngestWhileSmall ==
    /\ Size(qdrant_points) + Size(pending) < MaxLoaded
    /\ Size(pending) < MaxPending
    /\ ingest_git_event(HashlessCommit)

NextMaintenance ==
    \/ IngestWhileSmall
    \/ StoreInQdrant
    \/ QdrantChanges
    \/ DeleteRawPath
    \/ cleanup_bad_entries
    \/ cleanup_orphaned_commits
    \/ clear_all_repositories
    \/ clear_all_data
    \/ reset_everything

SpecMaintenance == InitLookup /\ [][NextMaintenance]_vars

(***************************************************************************)
(* generate_intelligent_answer on its own: a query, the events retrieved   *)
(* for it and the state of the language-model service are given, and the   *)
(* one step synthesizes the answer.                                        *)
(***************************************************************************)
\* commits a retrieval may return, two of them with hashes that begin alike
AnswerPool == <<
    Stored(Commit("bbb222aa", "/r", 7, "main", {"main"})),
    History[1], History[2], History[3], History[4], History[5],
    Stored(Commit("ddd444ddd4", "/r2", 4, "main", {"main"})) >>

\* the runs of at most MaxRetrieved commits of AnswerPool, in both orders
EventLists ==
    LET runs(pool) == {SubSeq(pool, i, j) :
                          i \in 1..Len(pool), j \in 0..Len(pool)}
    IN  {events \in runs(AnswerPool) \cup runs(Reverse(AnswerPool)) :
            Len(events) <= MaxRetrieved}

AnswerQueries == {
    "explain commit bbb2", "explain commit bbb222", "Explain commit BBB222",
    "show details of commit bbb222a", "what does commit 123abc9 do",
    "explain commit", "latest commit", "overview", "list commits",
    "recent changes", "compare the two newest", "project history",
    "who works here", "hello there" }

InitAnswer ==
    /\ qdrant_client = FALSE
    /\ embedding_model = FALSE
    /\ qdrant_up = FALSE
    /\ git_events = <<>>
    /\ qdrant_points = [e \in AllEvents |-> 0]
    /\ pending = [e \in AllEvents |-> 0]
    /\ indexed_repositories = NoRepositories
    /\ repos_file = NoRepositories
    /\ deleted = {}
    /\ NoActivity
    /\ \E query \in AnswerQueries, events \in EventLists, llm \in LlmStates :
           response = [op |-> "synthesize", query |-> query, events |-> events,
                       llm |-> llm]

\* answer = await generate_intelligent_answer(query, similar_events)
GenerateAnswer ==
    /\ response.op = "synthesize"
    /\ response' = [op |-> "answer", query |-> response.query,
                    events |-> response.events, llm |-> response.llm,
                    query_type |-> classify_query_type(Lower(response.query)),
                    answer |-> generate_intelligent_answer(
                                   response.query, response.events, response.llm)]
    /\ UNCHANGED <<process, qdrant_client, embedding_model, qdrant_up, git_events,
                   qdrant_points, pending, indexed_repositories, repos_file,
                   deleted>>

SpecAnswer == InitAnswer /\ [][GenerateAnswer]_vars

(***************************************************************************)
(* Claims about the commit store and the query handler.                    *)
(***************************************************************************)
IsQueryResponse == response.op = "query" /\ response.status = "ok"

\* C1: the sources of a query response never hold two entries with the
\* same commit value, whichever backend answered.
NoDuplicateSources ==
    IsQueryResponse =>
        \A i, j \in DOMAIN response.sources :
            i # j => response.sources[i].commit # response.sources[j].commit

RECURSIVE CountHash(_, _)
\* the records of events that carry commit_hash
CountHash(events, commit_hash) ==
    IF events = <<>> THEN 0
    ELSE (IF Head(events).commit_hash = commit_hash THEN 1 ELSE 0)
         + CountHash(Tail(events), commit_hash)

\* C2: ingesting a commit_hash that was ingested before is answered
\* "duplicate" and leaves the number of records with that hash as it was.
DuplicateIngestDetected ==
    [][\A event \in CommitInputs :
          (ingest_git_event(event)
           /\ CountHash(git_events, event.commit_hash) > 0)
          => /\ response'.status = "duplicate"
             /\ CountHash(git_events', event.commit_hash)
                    = CountHash(git_events, event.commit_hash)]_vars

\* C3: with a repository filter R every source has repository R.
SourcesMatchRepository ==
    (IsQueryResponse /\ response.repository # NoRepository) =>
        \A i \in DOMAIN response.sources :
            response.sources[i].repository = response.repository

\* C4: a deleted repository has no registry entry, and no summary or listing
\* query returns a commit of it, until it is ingested again.
DeletedStaysGone ==
    \A repo_path \in deleted :
        /\ repo_path \notin DOMAIN indexed_repositories
        /\ (IsQueryResponse
            /\ QueryType[response.query] \in {"repository_summary", "list_commits"})
           => \A i \in DOMAIN response.sources :
                  response.sources[i].repository # repo_path

\* the events the in-memory scan gives for a request
FallbackEvents(query, limit, repository, branches) ==
    IF IsTemporal[query]
    THEN TemporalInMemory(limit * 2, repository, branches)
    ELSE SearchInMemory(IF HasSummar[query] THEN SummaryWindow ELSE limit * 2,
                        repository, branches, FALSE)

IndexFails == qdrant_client /\ embedding_model /\ ~qdrant_up

\* C5: a request without branches handled while the index fails is answered
\* without error, from the in-memory collection under the same scope.
IndexFailureFallsBack ==
    (response.op = "query" /\ response.branches = <<>> /\ IndexFails) =>
        /\ response.status = "ok"
        /\ response.sources =
               formatted_sources(
                   FallbackEvents(response.query, response.limit,
                                  response.repository, response.branches),
                   response.limit)

\* the records of git_events in the scope of a request
InScope(repository, branches) ==
    SelectSeq(git_events,
              LAMBDA e : /\ (repository = NoRepository \/ e.repository = repository)
                         /\ (branches = <<>> \/ BranchMatch(e, branches)))

IsNewest(timestamp, events) ==
    /\ \E i \in DOMAIN events : events[i].timestamp = timestamp
    /\ \A i \in DOMAIN events : events[i].timestamp <= timestamp

\* C6: a query with a temporal keyword over a non-empty scope returns the
\* commit with the greatest timestamp of that scope as its first source.
NewestInScopeFirst ==
    (IsQueryResponse /\ IsTemporal[response.query]) =>
        LET scope == InScope(response.repository, response.branches)
        IN  scope # <<>> =>
                /\ response.sources # <<>>
                /\ IsNewest(response.sources[1].timestamp, scope)

\* C7: the sources of a query with a temporal keyword are in non-increasing
\* timestamp order.
TemporalSourcesDescending ==
    (IsQueryResponse /\ IsTemporal[response.query]) =>
        \A i, j \in DOMAIN response.sources :
            i < j => response.sources[i].timestamp >= response.sources[j].timestamp

\* a temporal request with a repository and a branch filter was answered
\* from the collection with two sources of different timestamps
TemporalSourcesSorted ==
    /\ IsQueryResponse
    /\ IsTemporal[response.query]
    /\ qdrant_client /\ embedding_model /\ qdrant_up
    /\ response.repository # NoRepository
    /\ response.branches # <<>>
    /\ Len(response.sources) >= 2
    /\ response.sources[1].timestamp > response.sources[2].timestamp

\* C8: the total_commits of a repository_summary answer scoped to R is the
\* number of records stored with repository R.
TotalCommitsIsStoreCount ==
    (/\ IsQueryResponse
     /\ QueryType[response.query] = "repository_summary"
     /\ response.repository # NoRepository
     /\ "total_commits" \in DOMAIN response.answer) =>
        response.answer.total_commits =
            Len(InScope(response.repository, <<>>))

\* C9: the confidence is in [0.5, 0.95] and is 0.5, plus 0.05 per source up
\* to 0.3, plus 0.1 for an answer of more than 100 characters, plus 0.1 for
\* an answer with "I found" or "Based on", cut at 0.95 (in hundredths).
ConfidenceInRange ==
    response.op = "confidence" =>
        LET n == Len(response.sources)
            sum == 50 + (IF 5 * n < 30 THEN 5 * n ELSE 30)
                   + (IF Len(response.answer) > 100 THEN 10 ELSE 0)
                   + (IF \/ Contains(response.answer, "I found")
                         \/ Contains(response.answer, "Based on")
                      THEN 10 ELSE 0)
        IN  /\ response.confidence >= 50
            /\ response.confidence <= 95
            /\ response.confidence = IF sum > 95 THEN 95 ELSE sum

\* a call where the sum of the parts is above the cap
ConfidenceCapped ==
    /\ response.op = "confidence"
    /\ Len(response.sources) >= 6
    /\ Len(response.answer) > 100
    /\ Contains(response.answer, "Based on")
    /\ response.confidence = 95

Intents == {"latest_commit", "repository_summary", "list_commits",
            "specific_commit", "general_commit_query", "recent_changes",
            "commit_comparison", "timeline", "author_analysis", "general"}

\* rule number rule of the order matches q
RuleMatches(rule, q) ==
    CASE rule = 1 -> AnyIn(q, LatestCommitPhrases)
      [] rule = 2 -> AnyIn(q, SummaryPhrases)
      [] rule = 3 -> AnyIn(q, ListPhrases)
      [] rule = 4 -> AnyIn(q, CommitWords) /\ AnyIn(q, ActionWords)
      [] rule = 5 -> AnyIn(q, RecentPhrases)
      [] rule = 6 -> AnyIn(q, ComparePhrases)
      [] rule = 7 -> AnyIn(q, TimelineWords)
      [] rule = 8 -> AnyIn(q, AuthorWords)

RuleIntents(rule) ==
    CASE rule = 1 -> {"latest_commit"}
      [] rule = 2 -> {"repository_summary"}
      [] rule = 3 -> {"list_commits"}
      [] rule = 4 -> {"specific_commit", "general_commit_query"}
      [] rule = 5 -> {"recent_changes"}
      [] rule = 6 -> {"commit_comparison"}
      [] rule = 7 -> {"timeline"}
      [] rule = 8 -> {"author_analysis"}

Rules == 1..8

\* C10: the query type is one of the closed set of intents, the intent of
\* the earliest rule of the fixed order that matches, and "general" exactly
\* when no rule matches.
EarliestRuleWins ==
    response.op = "classify" =>
        LET q == Lower(response.query)
            matching == {rule \in Rules : RuleMatches(rule, q)}
        IN  /\ response.query_type \in Intents
            /\ matching = {} <=> response.query_type = "general"
            /\ \A rule \in matching :
                   (\A earlier \in matching : rule <= earlier)
                   => response.query_type \in RuleIntents(rule)

\* the query of the example, which matches the rules of latest_commit and
\* of specific_commit / general_commit_query
SeveralRulesMatch ==
    /\ response.op = "classify"
    /\ response.query = "explain the latest commit's refactor"
    /\ RuleMatches(1, Lower(response.query))
    /\ RuleMatches(4, Lower(response.query))
    /\ response.query_type = "latest_commit"

(***************************************************************************)
(* Claims about the synthesis of answers.                                  *)
(***************************************************************************)
IsAnswer == response.op = "answer"

\* the positions of events whose hash begins with prefix
Beginning(events, prefix) ==
    {i \in DOMAIN events : StartsWith(events[i].commit_hash, prefix)}

\* C11: the query "explain commit bbb2", with bbb222 the one retrieved commit
\* whose hash begins with bbb2, is classified specific_commit and answered
\* with the report on bbb222.
ShortTokenResolves ==
    (/\ IsAnswer
     /\ response.query = "explain commit bbb2"
     /\ Cardinality(Beginning(response.events, "bbb2")) = 1
     /\ \E i \in DOMAIN response.events : response.events[i].commit_hash = "bbb222")
    => /\ response.query_type = "specific_commit"
       /\ response.answer.kind = "commit_analysis"
       /\ response.answer.target.commit_hash = "bbb222"

\* C12: a request that names branches is answered without error, and every
\* source has a requested branch as primary_branch or in all_branches.
BranchQueryAnswered ==
    (response.op = "query" /\ response.branches # <<>>) =>
        /\ response.status = "ok"
        /\ \A i \in DOMAIN response.sources :
               BranchMatch(response.sources[i], response.branches)

\* the records of the backend that answers requests
Corpus ==
    IF qdrant_client /\ embedding_model
    THEN {e \in DOMAIN qdrant_points : qdrant_points[e] > 0}
    ELSE {git_events[i] : i \in DOMAIN git_events}

\* the distinct hashes of the corpus in the scope of a request
ScopedHashes(repository, branches) ==
    {e.commit_hash : e \in
        {c \in Corpus :
            /\ (repository = NoRepository \/ c.repository = repository)
            /\ (branches = <<>> \/ BranchMatch(c, branches))}}

\* C13: a response of a working backend has at most limit sources, and has
\* limit distinct commits whenever the scoped corpus holds that many.
LimitDistinctSources ==
    (IsQueryResponse /\ ~IndexFails) =>
        /\ Len(response.sources) <= response.limit
        /\ Cardinality(ScopedHashes(response.repository, response.branches))
               >= response.limit
           => Cardinality({response.sources[i].commit :
                              i \in DOMAIN response.sources}) = response.limit

(***************************************************************************)
(* C14: an operation that references a repository or a commit that does    *)
(* not exist (delete_repository, select_repository, get_commit_details,    *)
(* the compare endpoint) answers "not found", never a success, and leaves  *)
(* git_events, the collection and the registry as they were.  A repository *)
(* exists when the registry holds its normalized path; a commit exists     *)
(* when a record of git_events or a point of the collection holds the      *)
(* reference in its hash.  A reference the endpoint rejects as malformed   *)
(* (shorter than MinHashLength, or missing) is not looked up at all.       *)
(***************************************************************************)
RepositoryExists(repo_path) ==
    normalize_repo_path(repo_path) \in DOMAIN indexed_repositories

CommitExists(commit_hash) ==
    \/ \E i \in DOMAIN git_events : Contains(git_events[i].commit_hash, commit_hash)
    \/ \E e \in DOMAIN qdrant_points :
           qdrant_points[e] > 0 /\ Contains(e.commit_hash, commit_hash)

StoresUnchanged ==
    UNCHANGED <<git_events, qdrant_points, indexed_repositories, repos_file>>

NotFoundOutcome == response'.status = "not_found" /\ StoresUnchanged

NoData == [kind |-> "No relevant events found."]

\* C15: whatever the intent of the query, an answer synthesized from an
\* empty list of commits is the literal "No relevant events found.", and the
\* synthesis does not raise.
EmptyListAnswered ==
    (IsAnswer /\ response.events = <<>>)
    => /\ response.answer = NoData
       /\ response.answer # Raised

\* a comparison query, the intent whose formatter cannot be called, was
\* answered from an empty list
EmptyComparisonAnswered ==
    /\ IsAnswer
    /\ response.events = <<>>
    /\ response.query_type = "commit_comparison"
    /\ response.answer = NoData

\* C16: when the language-model service fails, times out or replies with
\* nothing, query_llm yields "" and the answer to a query of the general
\* intent over a non-empty list is the listing of its first ListingLength
\* commits in result order; nothing is raised.
LlmFailureFallsBack ==
    (/\ IsAnswer
     /\ response.llm # "reply"
     /\ response.query_type = "general"
     /\ response.events # <<>>)
    => /\ query_llm(response.llm) = ""
       /\ response.answer.kind = "listing"
       /\ response.answer.found = Len(response.events)
       /\ Len(response.answer.commits) = Min(ListingLength, Len(response.events))
       /\ \A i \in DOMAIN response.answer.commits :
              response.answer.commits[i] = Take(response.events[i].commit_hash, 8)

\* a general query over more than ListingLength commits was answered with
\* the listing while the service timed out
ListingAfterTimeout ==
    /\ IsAnswer
    /\ response.llm = "timeout"
    /\ response.query_type = "general"
    /\ Len(response.events) > ListingLength
    /\ response.answer.kind = "listing"
    /\ response.answer.more = Len(response.events) - ListingLength

\* C18: a query classified commit_comparison over at least two retrieved
\* commits is answered, without error, by a report that compares the first
\* and the second commit of the result.
ComparisonReportsTopTwo ==
    (/\ IsAnswer
     /\ response.query_type = "commit_comparison"
     /\ Len(response.events) >= 2)
    => /\ response.answer # Raised
       /\ response.answer.kind = "commit_comparison"
       /\ response.answer.commit_1 = response.events[1]
       /\ response.answer.commit_2 = response.events[2]

\* the length of the longest common prefix of two strings
CommonPrefix(a, b) ==
    LET same == {k \in 0..Min(Len(a), Len(b)) : SubSeq(a, 1, k) = SubSeq(b, 1, k)}
    IN  CHOOSE k \in same : \A other \in same : other <= k

\* C19: the answer to a specific_commit query reports a retrieved commit
\* whose hash begins with the hex token of the query, the first such commit
\* in result order; no retrieved commit has a longer common prefix with the
\* token.  When no retrieved hash begins with the token the answer is
\* "Could not find the specified commit." and no commit is reported.
SpecificCommitTargeted ==
    (/\ IsAnswer
     /\ response.query_type = "specific_commit"
     /\ response.events # <<>>)
    => LET events == response.events
           token == extract_commit_hash(response.query)
           matches == Beginning(events, token)
       IN  /\ token # ""
           /\ IF matches = {} THEN response.answer = NotFound
              ELSE /\ response.answer.kind = "commit_analysis"
                   /\ \E i \in matches :
                         /\ response.answer.target = events[i]
                         /\ \A k \in matches : i <= k
                   /\ \A k \in DOMAIN events :
                         CommonPrefix(events[k].commit_hash, token)
                             <= CommonPrefix(response.answer.target.commit_hash, token)

\* the token bbb222 was resolved in a result whose first commit does not
\* match it and in which two hashes begin with it
TokenResolvedBehindOthers ==
    /\ IsAnswer
    /\ response.query = "explain commit bbb222"
    /\ response.query_type = "specific_commit"
    /\ Cardinality(Beginning(response.events, "bbb222")) = 2
    /\ 1 \notin Beginning(response.events, "bbb222")
    /\ response.answer.kind = "commit_analysis"

\* no two keys of the registry name the same directory
OneEntryPerPath ==
    \A p \in DOMAIN indexed_repositories, q \in DOMAIN indexed_repositories :
        normalize_repo_path(p) = normalize_repo_path(q) => p = q

\* C20: the registry holds one entry per normalized path, and a select or a
\* delete under any raw path of a registered directory reaches the entry of
\* that directory: the select sets its flag, the delete (with the index
\* reachable) removes it.
RawPathsAddressOneEntry ==
    [][ /\ OneEntryPerPath'
        /\ \A repo_path \in RawPaths :
             RepositoryExists(repo_path) =>
                 LET entry == normalize_repo_path(repo_path)
                 IN  /\ \A selected \in BOOLEAN :
                            select_repository(repo_path, selected) =>
                                /\ response'.status = "success"
                                /\ indexed_repositories'[entry].selected = selected
                     /\ (delete_repository(repo_path) /\ (qdrant_client => qdrant_up))
                            => /\ response'.status = "success"
                               /\ entry \notin DOMAIN indexed_repositories' ]_vars

\* C17: no source of a query response stands for a record without a
\* commit_hash, whether the index or git_events answered, and a record
\* without a commit_hash is never what makes ingest_git_event answer
\* "duplicate".
HashlessExcluded ==
    /\ IsQueryResponse =>
           \A i \in DOMAIN response.sources : response.sources[i].commit # ""
    /\ (response.op = "ingest" /\ response.status = "duplicate") =>
           \E e \in DOMAIN qdrant_points :
               qdrant_points[e] > 0 /\ e.commit_hash # ""

\* C21: at the end of every operation the registry file holds the registry
\* of the process, so that a restart reloads the same registry.
RegistryPersisted == repos_file = indexed_repositories

\* C22: a step of query_context, whether it answers or fails, leaves
\* git_events (content and order), the collection and the registry as they
\* were.
QueryReadOnly ==
    [][response'.op = "query" =>
          UNCHANGED <<git_events, qdrant_points, indexed_repositories,
                      repos_file>>]_vars

\* a query failed in a process that holds commits out of timestamp order
\* in git_events and points in the collection
QueryFailedOverStores ==
    /\ response.op = "query"
    /\ response.status = "error"
    /\ Len(git_events) >= 2
    /\ git_events # SortByTimestampDesc(git_events)
    /\ Size(qdrant_points) > 0

RECURSIVE CountRecord(_, _)
\* how often the record e stands in events
CountRecord(events, e) ==
    IF events = <<>> THEN 0
    ELSE (IF Head(events) = e THEN 1 ELSE 0) + CountRecord(Tail(events), e)

\* C23: a record with a non-empty hash that git_events or the collection
\* holds is still held, unchanged, after every step that is neither a
\* delete of a repository nor a reset or clear of all data: queries,
\* ingestions and the cleanup operations keep it.
CommitsStayStored ==
    [][response'.op \notin {"delete", "reset", "clear"} =>
          \A e \in AllEvents :
              e.commit_hash # "" =>
                  /\ CountRecord(git_events', e) >= CountRecord(git_events, e)
                  /\ qdrant_points'[e] >= qdrant_points[e]]_vars

\* C24: a query that classify_query_type maps to latest_commit or to
\* recent_changes passes the temporal-keyword test of query_context, so it
\* is retrieved newest first.
ChronologicalIntentIsTemporal ==
    (/\ response.op = "classify"
     /\ response.query_type \in {"latest_commit", "recent_changes"})
    => is_temporal_query(response.query)

\* "what changed recently", in which the keyword "recent" is part of a
\* longer word, was classified recent_changes
RecentlyClassified ==
    /\ response.op = "classify"
    /\ response.query = "Please what changed recently now"
    /\ response.query_type = "recent_changes"

\* the records of repository repo_path in git_events, and its points
EventsOf(events, repo_path) == SelectSeq(events, LAMBDA e : e.repository = repo_path)

PointsOf(points, repo_path) ==
    {e \in DOMAIN points : points[e] > 0 /\ e.repository = repo_path}

\* C27: when a repository was deleted with success and is not ingested
\* again, then as soon as no background write of it is waiting the
\* collection holds no point of it.
DeletedLeavesNoPoint ==
    \A repo_path \in deleted :
        PointsOf(pending, repo_path) = {} => PointsOf(qdrant_points, repo_path) = {}

\* C28: with the client, the model and the service available, git_events
\* never holds two records with the same non-empty commit_hash and the
\* collection never holds two points with it.
NoTwoRecordsPerHash ==
    (qdrant_client /\ embedding_model /\ qdrant_up) =>
        \A e \in AllEvents :
            e.commit_hash # "" =>
                /\ CountHash(git_events, e.commit_hash) <= 1
                /\ qdrant_points[e] <= 1

StoredHashes(repo_path) ==
    {git_events[i].commit_hash :
        i \in {k \in DOMAIN git_events : git_events[k].repository = repo_path}}
    \cup {e.commit_hash : e \in PointsOf(qdrant_points, repo_path)}

\* C30: the commit_count of every entry of the registry is the number of
\* distinct commits of its repository that git_events and the collection
\* hold.
CommitCountIsStoreCount ==
    \A repo_path \in DOMAIN indexed_repositories :
        indexed_repositories[repo_path].commit_count
            = Cardinality(StoredHashes(repo_path))

\* C26: while a collector thread that start_ingestion or
\* start_multi_branch_ingestion started is running, is_ingesting is true.
IngestingWhileCollecting ==
    collectors > 0 => ingestion_status.is_ingesting

\* a delete request is between its first statement and its return
InProgress(t) == handlers[t].pc \notin {"idle", "done"}

\* C25: no two delete requests are in progress at the same time, so none
\* starts while another has removed the points of a repository and not yet
\* its records and its entry; and a delete request for a repository that
\* another request has deleted with success ends in "not found".
DeletesDoNotInterleave ==
    [][ /\ \A t \in Requests, u \in Requests :
             t # u => ~(InProgress(t) /\ InProgress(u))'
        /\ \A t \in Requests, u \in Requests, repo_path \in RawPaths :
             (/\ t # u
              /\ handlers[t] = [pc |-> "done", repo_path |-> repo_path,
                                status |-> "success"]
              /\ delete_begins(u, repo_path))
             => handlers'[u].status = "not_found" ]_vars

\* two delete requests for /r have ended, one with success and one with
\* "not found"
SecondDeleteNotFound ==
    \E t \in Requests, u \in Requests :
        /\ handlers[t] = [pc |-> "done", repo_path |-> "/r", status |-> "success"]
        /\ handlers[u] = [pc |-> "done", repo_path |-> "/r", status |-> "not_found"]

====
